---- MODULE Spec2Model ----
(***************************************************************************)
(* A model of azure.identity._internal.aad_client_base.AadClientBase:      *)
(* the token-cache lookup/update protocol, the response-processing steps   *)
(* of _process_response (as one step, and step by step for two threads),   *)
(* the request builders with the claims merge and the certificate          *)
(* assertion, and the snapshot/restore (pickle) contract.                  *)
(*                                                                         *)
(* Python values are modelled as follows.                                  *)
(*   - a dict is a function whose DOMAIN is the set of its keys, so that   *)
(*     `k in d`, `d.get(k)`, `del d[k]` and `d[k] = v` are Has, Get, Del   *)
(*     and Put;                                                            *)
(*   - None is NoVal where a string is expected and NoInt where an int is; *)
(*   - an insertion-ordered dict of cache entries (msal keeps one per      *)
(*     credential type) is the sequence of its values in insertion order;  *)
(*   - str(n) of an int is the tagged value Str(n); int(s) is ParseInt(s). *)
(* msal.TokenCache is a library used by the source; its search/add/        *)
(* update_rt/remove_rt are modelled at the places where the source calls   *)
(* them.  One account and one authority host are modelled, so the          *)
(* home_account_id and environment components of msal's keys are constant  *)
(* and left out of the keys.                                               *)
(***************************************************************************)
EXTENDS Integers, Sequences, FiniteSets, TLC

VARIABLES
    tenant_id,      \* self._tenant_id
    cache,          \* self._cache: a token cache, or NoCache (None)
    cae_cache,      \* self._cae_cache
    custom_cache,   \* self._custom_cache
    cache_options,  \* self._cache_options is set (cache_persistence_options)
    now,            \* int(time.time())
    last,           \* the last call: its arguments, its outcome, the cache before it
    state,          \* the dict __getstate__ returned last, or NoState
    nextId,         \* identity of the next TokenCache object created
    responses,      \* number of _process_response calls made
    calls           \* the _process_response calls under way at once, by thread

vars == <<tenant_id, cache, cae_cache, custom_cache, cache_options, now, last, state, nextId,
          responses, calls>>

----------------------------------------------------------------------------
(* Bounds of the model *)

TickLen == 3600         \* seconds the clock advances in one Tick
MaxTicks == 1           \* times the clock advances in one behaviour
MaxResponses == 1       \* _process_response calls in one behaviour
MaxTenantResponses == 2 \* the same, in the behaviours with tenant overrides
MaxCacheId == 4         \* TokenCache objects created in one behaviour

(* Constants of the program *)

RefreshThreshold == 7200    \* `expires_in >= 7200`
DefaultExpiresIn == 600     \* msal's expires_in when the response has neither field

----------------------------------------------------------------------------
(* Python values *)

NoVal == "None"
NoInt == -1

Has(d, k) == k \in DOMAIN d
Get(d, k) == IF k \in DOMAIN d THEN d[k] ELSE NoVal
Del(d, k) == [x \in DOMAIN d \ {k} |-> d[x]]
Put(d, k, v) == [x \in DOMAIN d \cup {k} |-> IF x = k THEN v ELSE d[x]]
\* dict(a, **b)
Update(a, b) == [x \in DOMAIN a \cup DOMAIN b |-> IF x \in DOMAIN b THEN b[x] ELSE a[x]]
EmptyDict == [x \in {} |-> NoVal]

\* str(n) for an int n, and int(s) of such a string
Str(n) == <<"str", n>>
ParseInt(s) == s[2]

\* " ".join(scopes) ... .split() gives the list back (no scope holds a blank);
\* msal's target is " ".join(sorted(scopes)) and is compared as set(target.split())
Target(scopes) == {scopes[i] : i \in DOMAIN scopes}

----------------------------------------------------------------------------
(* msal.TokenCache *)

AccessTokenType == "AccessToken"
RefreshTokenType == "RefreshToken"

NoCache == [id |-> 0]
IsNone(c) == c.id = 0

\* TokenCache(): a new, empty cache object
TokenCache(id) ==
    [id |-> id, origin |-> "internal", persistent |-> FALSE,
     AccessToken |-> <<>>, RefreshToken |-> <<>>]

\* msal's key_makers: the key an entry is stored under
KeyOf(credential_type, e) ==
    IF credential_type = AccessTokenType
    THEN <<e.client_id, e.realm, e.target>>
    ELSE <<e.client_id, e.target>>

\* msal's is_subdict_of(query, entry) and the target test of _is_matching
IsMatching(entry, query, target_set) ==
    /\ \A k \in DOMAIN query : k \in DOMAIN entry /\ entry[k] = query[k]
    /\ (target_set # {} => target_set \subseteq entry.target)

\* cache.search(credential_type, target=..., query=...): the matching entries
\* in the order of the cache's dict
Search(c, credential_type, target, query) ==
    LET Test(e) == IsMatching(e, query, Target(target))
    IN SelectSeq(c[credential_type], Test)

\* TokenCache.modify(credential_type, old_entry, new_key_value_pairs): the entry
\* stored under old_entry's key becomes dict(old_entry, **new), in place if the
\* key exists and at the end otherwise
Modify(c, credential_type, old_entry, new_pairs) ==
    LET entries == c[credential_type]
        key == KeyOf(credential_type, old_entry)
        merged == Update(old_entry, new_pairs)
        hit == {i \in DOMAIN entries : KeyOf(credential_type, entries[i]) = key}
    IN [c EXCEPT ![credential_type] =
            IF hit # {}
            THEN [i \in DOMAIN entries |-> IF i \in hit THEN merged ELSE entries[i]]
            ELSE Append(entries, merged)]

\* TokenCache.modify(credential_type, old_entry): pop old_entry's key
Pop(c, credential_type, old_entry) ==
    LET key == KeyOf(credential_type, old_entry)
        Keep(e) == KeyOf(credential_type, e) # key
    IN [c EXCEPT ![credential_type] = SelectSeq(c[credential_type], Keep)]

\* cache.remove_rt(rt_item)
RemoveRt(c, rt_item) == Pop(c, RefreshTokenType, rt_item)

\* cache.update_rt(rt_item, new_rt)
UpdateRt(c, rt_item, new_rt) ==
    Modify(c, RefreshTokenType, rt_item, [secret |-> new_rt])

\* canonicalize(token_endpoint): the realm is the first path segment of the URL
Realm(url) == url[2]

\* cache.add(event, now=now)
Add(c, event, t) ==
    LET response == event.response
        target == Target(event.scope)
        access_token == Get(response, "access_token")
        refresh_token == Get(response, "refresh_token")
        default_expires_in ==
            IF Has(response, "expires_on") /\ response.expires_on # 0
            THEN response.expires_on - t
            ELSE DefaultExpiresIn
        expires_in ==
            IF Has(response, "expires_in") THEN response.expires_in ELSE default_expires_in
        at0 == [credential_type |-> AccessTokenType,
                secret |-> access_token,
                client_id |-> event.client_id,
                target |-> target,
                realm |-> Realm(event.token_endpoint),
                token_type |-> IF Has(response, "token_type")
                               THEN response.token_type ELSE "Bearer",
                expires_on |-> Str(t + expires_in)]
        at == IF Has(response, "refresh_in")
              THEN Put(at0, "refresh_on", Str(t + response.refresh_in))
              ELSE at0
        rt == [credential_type |-> RefreshTokenType,
               secret |-> refresh_token,
               client_id |-> event.client_id,
               target |-> target]
        c1 == IF access_token # NoVal THEN Modify(c, AccessTokenType, at, at) ELSE c
    IN IF refresh_token # NoVal THEN Modify(c1, RefreshTokenType, rt, rt) ELSE c1

----------------------------------------------------------------------------
(* The client: AadClientBase.__init__ and the cache lifecycle *)

TenantId == "t1"                                    \* the tenant_id argument
ClientId == "c1"                                    \* self._client_id
Authority == "https://login.microsoftonline.com"    \* self._authority
AdditionallyAllowedTenants == {"t2"}                \* self._additionally_allowed_tenants

\* resolve_tenant(default_tenant, tenant_id=None, additionally_allowed_tenants=...):
\* the per-call tenant when one is given and allowed, else the default tenant
ResolveTenant(default_tenant, kwargs) ==
    IF Has(kwargs, "tenant_id") /\ kwargs.tenant_id \in AdditionallyAllowedTenants
    THEN kwargs.tenant_id
    ELSE default_tenant

\* _get_token_url: "/".join((self._authority, tenant, "oauth2/v2.0/token"))
GetTokenUrl(kwargs) ==
    <<Authority, ResolveTenant(tenant_id, kwargs), "oauth2/v2.0/token">>

\* _load_persistent_cache(options, is_cae): a cache object backed by the store
LoadPersistentCache(id) == [TokenCache(id) EXCEPT !.persistent = TRUE]

\* _initialize_cache: the object assigned to self._cae_cache / self._cache
InitializeCache(id) ==
    IF cache_options THEN LoadPersistentCache(id) ELSE TokenCache(id)

\* kwargs.get("enable_cae")
EnableCae(kwargs) == Has(kwargs, "enable_cae") /\ kwargs.enable_cae

\* GetCache with a seeded fault: no test of the field, a cache is created on
\* every call
GetCacheAlwaysNew(kwargs) == InitializeCache(nextId)

\* _get_cache: the cache of the call's type, created when the field is None
GetCache(kwargs) ==
    LET c == IF EnableCae(kwargs) THEN cae_cache ELSE cache
    IN IF IsNone(c) THEN InitializeCache(nextId) ELSE c

\* the fields after a call that used GetCache(kwargs) and left the cache as c
StoreCache(kwargs, c) ==
    /\ cache' = IF EnableCae(kwargs) THEN cache ELSE c
    /\ cae_cache' = IF EnableCae(kwargs) THEN c ELSE cae_cache
    /\ nextId' = IF c.id = nextId THEN nextId + 1 ELSE nextId

\* _get_cache creates an object only while the model has identities left
CanGetCache(kwargs) ==
    ~IsNone(IF EnableCae(kwargs) THEN cae_cache ELSE cache) \/ nextId <= MaxCacheId

----------------------------------------------------------------------------
(* Request builders *)

\* JSON.  A JSON value is an object, an array, a string or null; a text is what
\* json.dumps gives for a value, a text json.loads cannot parse, the empty string
\* or None
JsonObject(members) == [type |-> "object", members |-> members]
JsonArray(items) == [type |-> "array", items |-> items]
JsonString(value) == [type |-> "string", value |-> value]
JsonNull == [type |-> "null"]
JsonDumps(value) == [json |-> value]
MalformedText == [malformed |-> TRUE]
EmptyText == [empty |-> TRUE]
NoText == [none |-> TRUE]
IsTruthy(text) == Has(text, "json") \/ Has(text, "malformed")

\* _merge_claims_challenge_and_capabilities(capabilities, claims_challenge): how
\* the call ends and the text it returns
MergeClaimsChallengeAndCapabilities(capabilities, claims_challenge) ==
    IF capabilities = <<>>
    THEN [outcome |-> "returned", value |-> claims_challenge]
    ELSE IF Has(claims_challenge, "malformed")
    THEN \* json.loads raises
         [outcome |-> "JSONDecodeError", value |-> NoText]
    ELSE LET claims_dict == IF IsTruthy(claims_challenge) THEN claims_challenge.json
                            ELSE JsonObject(EmptyDict)
         IN IF claims_dict.type # "object"
            THEN \* no setdefault on a list, a str or None
                 [outcome |-> "AttributeError", value |-> NoText]
            ELSE LET access_token == IF Has(claims_dict.members, "access_token")
                                     THEN claims_dict.members.access_token
                                     ELSE JsonObject(EmptyDict)
                 IN IF access_token.type # "object"
                    THEN \* no update on a list, a str or None
                         [outcome |-> "AttributeError", value |-> NoText]
                    ELSE [outcome |-> "returned",
                          value |-> JsonDumps(JsonObject(
                              Put(claims_dict.members, "access_token",
                                  JsonObject(Put(access_token.members, "xms_cc",
                                      JsonObject([values |->
                                          JsonArray(capabilities)]))))))]

\* kwargs.get("claims")
ClaimsOf(kwargs) == IF Has(kwargs, "claims") THEN kwargs.claims ELSE NoText

\* the merge as the request builders call it, and `if claims: data["claims"] = claims`
WithClaims(data, kwargs) ==
    LET claims == MergeClaimsChallengeAndCapabilities(
                      IF EnableCae(kwargs) THEN <<"CP1">> ELSE <<>>, ClaimsOf(kwargs)).value
    IN IF IsTruthy(claims) THEN Put(data, "claims", claims) ELSE data

\* _post(data, **kwargs)
Post(data, kwargs) ==
    [method |-> "POST", url |-> GetTokenUrl(kwargs), body |-> data,
     headers |-> [x \in {"Content-Type"} |-> "application/x-www-form-urlencoded"]]

\* AadClientCertificate: thumbprints and signatures of a certificate
Thumbprint(certificate) == <<"sha1", certificate>>
Sha256Thumbprint(certificate) == <<"sha256", certificate>>
SignPs256(certificate, jws) == [alg |-> "PS256", key |-> certificate, signed |-> jws]
SignRs256(certificate, jws) == [alg |-> "RS256", key |-> certificate, signed |-> jws]

\* base64.urlsafe_b64encode and its inverse
UrlsafeB64encode(bytes) == <<"b64", bytes>>
UrlsafeB64decode(text) == text[2]

\* str.lower, for the tenant ids of the model
Lower(str) == IF str \in {"ADFS", "Adfs"} THEN "adfs" ELSE str

\* self._is_adfs
IsAdfs == Lower(tenant_id) = "adfs"

JWT_BEARER_ASSERTION == "urn:ietf:params:oauth:client-assertion-type:jwt-bearer"

\* the seconds an assertion is valid for: 60 * 30
AssertionLifetime == 1800

\* (seeded fault) the assertion is always made the PS256 way
AssertionAlwaysPs256(certificate, kwargs, jti, t) ==
    LET headers == Put(Put([typ |-> "JWT"], "alg", "PS256"),
                       "x5t#S256", Sha256Thumbprint(certificate))
        payload == [jti |-> jti, aud |-> GetTokenUrl(kwargs), iss |-> ClientId,
                    sub |-> ClientId, nbf |-> t, exp |-> t + AssertionLifetime]
        jws == <<UrlsafeB64encode(JsonDumps(headers)),
                 UrlsafeB64encode(JsonDumps(payload))>>
    IN Append(jws, UrlsafeB64encode(SignPs256(certificate, jws)))

\* _get_client_certificate_assertion(certificate, **kwargs) at time t, with jti
\* the uuid4 it draws: the three segments of the JWT
ClientCertificateAssertion(certificate, kwargs, jti, t) ==
    LET headers == IF IsAdfs
                   THEN Put(Put([typ |-> "JWT"], "alg", "RS256"),
                            "x5t", Thumbprint(certificate))
                   ELSE Put(Put([typ |-> "JWT"], "alg", "PS256"),
                            "x5t#S256", Sha256Thumbprint(certificate))
        payload == [jti |-> jti, aud |-> GetTokenUrl(kwargs), iss |-> ClientId,
                    sub |-> ClientId, nbf |-> t, exp |-> t + AssertionLifetime]
        jws == <<UrlsafeB64encode(JsonDumps(headers)),
                 UrlsafeB64encode(JsonDumps(payload))>>
        signature == IF ~IsAdfs THEN SignPs256(certificate, jws)
                     ELSE SignRs256(certificate, jws)
    IN Append(jws, UrlsafeB64encode(signature))

\* _get_jwt_assertion_request(scopes, assertion, **kwargs)
JwtAssertionRequest(scopes, assertion, kwargs) ==
    Post(WithClaims([client_assertion |-> assertion,
                     client_assertion_type |-> JWT_BEARER_ASSERTION,
                     client_id |-> ClientId,
                     grant_type |-> "client_credentials",
                     scope |-> scopes], kwargs), kwargs)

\* _get_client_certificate_request(scopes, certificate, **kwargs)
ClientCertificateRequest(scopes, certificate, kwargs, jti, t) ==
    JwtAssertionRequest(scopes, ClientCertificateAssertion(certificate, kwargs, jti, t),
                        kwargs)

\* _get_client_secret_request(scopes, secret, **kwargs)
ClientSecretRequest(scopes, secret, kwargs) ==
    Post(WithClaims([client_id |-> ClientId,
                     client_secret |-> secret,
                     grant_type |-> "client_credentials",
                     scope |-> scopes], kwargs), kwargs)

\* the client_credential argument of the on-behalf-of requests: an
\* AadClientCertificate, a dict with a client_assertion callable, or a secret
CertificateCredential(certificate) == [kind |-> "certificate", certificate |-> certificate]
AssertionCredential(assertion) == [kind |-> "dict", client_assertion |-> assertion]
SecretCredential(secret) == [kind |-> "str", secret |-> secret]

\* lines 312-321 and 366-374: the credential's fields of an on-behalf-of request
WithClientCredential(data, client_credential, jti, t) ==
    IF client_credential.kind = "certificate"
    THEN Update(data,
                [client_assertion |->
                     ClientCertificateAssertion(client_credential.certificate,
                                                EmptyDict, jti, t),
                 client_assertion_type |-> JWT_BEARER_ASSERTION])
    ELSE IF client_credential.kind = "dict"
    THEN Update(data, [client_assertion |-> client_credential.client_assertion,
                       client_assertion_type |-> JWT_BEARER_ASSERTION])
    ELSE Put(data, "client_secret", client_credential.secret)

\* _get_on_behalf_of_request(scopes, client_credential, user_assertion, **kwargs)
OnBehalfOfRequest(scopes, client_credential, user_assertion, kwargs, jti, t) ==
    Post(WithClientCredential(
             WithClaims([assertion |-> user_assertion,
                         client_id |-> ClientId,
                         grant_type |-> "urn:ietf:params:oauth:grant-type:jwt-bearer",
                         requested_token_use |-> "on_behalf_of",
                         scope |-> scopes], kwargs),
             client_credential, jti, t), kwargs)

\* _get_refresh_token_request(scopes, refresh_token, **kwargs)
RefreshTokenRequest(scopes, refresh_token, kwargs) ==
    LET data == [grant_type |-> "refresh_token",
                 refresh_token |-> refresh_token,
                 scope |-> scopes,
                 client_id |-> ClientId,
                 client_info |-> 1]
        with_secret == IF Has(kwargs, "client_secret") /\ kwargs.client_secret # ""
                       THEN Put(data, "client_secret", kwargs.client_secret)
                       ELSE data
    IN Post(WithClaims(with_secret, kwargs), kwargs)

\* _get_refresh_token_on_behalf_of_request(scopes, client_credential,
\* refresh_token, **kwargs)
RefreshTokenOnBehalfOfRequest(scopes, client_credential, refresh_token, kwargs, jti, t) ==
    Post(WithClientCredential(
             WithClaims([grant_type |-> "refresh_token",
                         refresh_token |-> refresh_token,
                         scope |-> scopes,
                         client_id |-> ClientId,
                         client_info |-> 1], kwargs),
             client_credential, jti, t), kwargs)

----------------------------------------------------------------------------
(* _process_response and its helpers *)

\* AccessTokenInfo(token, expires_on, token_type=..., refresh_on=...)
AccessTokenInfo(token, expires_on, token_type, refresh_on) ==
    [token |-> token, expires_on |-> expires_on,
     token_type |-> token_type, refresh_on |-> refresh_on]

\* the value of a call that returned None or raised
NoToken == [token |-> NoVal]

\* ScrubSecrets with a seeded fault: masks the access token only
ScrubAccessTokenOnly(response) ==
    [k \in DOMAIN response |->
        IF k \in {"access_token"} THEN "***" ELSE response[k]]

\* _scrub_secrets(response)
ScrubSecrets(response) ==
    [k \in DOMAIN response |->
        IF k \in {"access_token", "refresh_token"} THEN "***" ELSE response[k]]

NoMessage == [format |-> NoVal, args |-> EmptyDict]

\* RaiseForError with a seeded fault: raises only for an error that has a
\* description
RaiseOnlyDescribed(content) ==
    IF ~Has(content, "error") \/ ~Has(content, "error_description")
    THEN NoMessage
    ELSE [format |-> "Microsoft Entra ID error '({}) {}'",
          args |-> [error |-> content.error,
                    error_description |-> content.error_description]]

\* _raise_for_error(response, content): the message of the error it raises,
\* NoMessage when it returns
RaiseForError(content) ==
    IF ~Has(content, "error")
    THEN NoMessage
    ELSE LET scrubbed == ScrubSecrets(content)
         IN IF Has(scrubbed, "error_description")
            THEN [format |-> "Microsoft Entra ID error '({}) {}'",
                  args |-> [error |-> scrubbed.error,
                            error_description |-> scrubbed.error_description]]
            ELSE [format |-> "Microsoft Entra ID error '{}'", args |-> scrubbed]

\* lines 146-153: evict every entry whose secret is the request's refresh token
RECURSIVE RemoveAll(_, _)
RemoveAll(c, cache_entries) ==
    IF cache_entries = <<>> THEN c
    ELSE RemoveAll(RemoveRt(c, Head(cache_entries)), Tail(cache_entries))

\* EvictInvalidGrant with a seeded fault: evicts only the first matching entry
EvictFirstOnly(c, request, content) ==
    IF Get(content, "error") = "invalid_grant"
    THEN LET found == Search(c, RefreshTokenType, <<>>,
                             [secret |-> request.body.refresh_token])
         IN IF found = <<>> THEN c ELSE RemoveRt(c, found[1])
    ELSE c

EvictInvalidGrant(c, request, content) ==
    IF Get(content, "error") = "invalid_grant"
    THEN RemoveAll(c, Search(c, RefreshTokenType, <<>>,
                             [secret |-> request.body.refresh_token]))
    ELSE c

\* RotateRefreshToken with a seeded fault: no `del content["refresh_token"]`
RotateKeepingToken(c, request, content) ==
    IF Has(content, "refresh_token")
    THEN LET cache_entries == Search(c, RefreshTokenType, <<>>,
                                     [secret |-> request.body.refresh_token])
         IN IF Len(cache_entries) = 1
            THEN [cache |-> UpdateRt(c, cache_entries[1], content.refresh_token),
                  content |-> content]
            ELSE [cache |-> c, content |-> content]
    ELSE [cache |-> c, content |-> content]

\* RotateUpdated with a seeded fault: no entry is ever updated
RotateUpdatedNever(c, cache_entries, content) == [cache |-> c, content |-> content]

\* lines 164-166: the cache and the content after `if len(cache_entries) == 1`
RotateUpdated(c, cache_entries, content) ==
    IF Len(cache_entries) = 1
    THEN [cache |-> UpdateRt(c, cache_entries[1], content.refresh_token),
          content |-> Del(content, "refresh_token")]
    ELSE [cache |-> c, content |-> content]

\* lines 154-166: the cache and the content after the rotation step
RotateRefreshToken(c, request, content) ==
    IF Has(content, "refresh_token")
    THEN RotateUpdated(c, Search(c, RefreshTokenType, <<>>,
                                 [secret |-> request.body.refresh_token]), content)
    ELSE [cache |-> c, content |-> content]

\* RefreshTokenSteps with a seeded fault: the error and expiry checks come first
RefreshTokenStepsAfterChecks(c, request, content) ==
    IF \/ Has(content, "error")
       \/ ~Has(content, "expires_on") /\ ~Has(content, "expires_in")
    THEN [cache |-> c, content |-> content]
    ELSE IF Get(request.body, "grant_type") = "refresh_token"
    THEN RotateRefreshToken(EvictInvalidGrant(c, request, content), request, content)
    ELSE [cache |-> c, content |-> content]

\* lines 143-166
RefreshTokenSteps(c, request, content) ==
    IF Get(request.body, "grant_type") = "refresh_token"
    THEN RotateRefreshToken(EvictInvalidGrant(c, request, content), request, content)
    ELSE [cache |-> c, content |-> content]

\* ExpiresOn with a seeded fault: expires_in is looked at first
ExpiresOnFromExpiresIn(content, request_time) ==
    IF Has(content, "expires_in") THEN request_time + content.expires_in
    ELSE content.expires_on

\* lines 170-173
ExpiresOn(content, request_time) ==
    IF Has(content, "expires_on") THEN content.expires_on
    ELSE request_time + content.expires_in

\* line 178: int(content.get("expires_in") or expires_on - request_time)
ExpiresIn(content, expires_on, request_time) ==
    IF Has(content, "expires_in") /\ content.expires_in # 0
    THEN content.expires_in
    ELSE expires_on - request_time

\* WithRefreshIn with a seeded fault: > for >=
WithRefreshInAbove(content, expires_in) ==
    IF ~Has(content, "refresh_in") /\ expires_in > RefreshThreshold
    THEN Put(content, "refresh_in", expires_in \div 2)
    ELSE content

\* lines 179-181: the content with the synthesized refresh_in
WithRefreshIn(content, expires_in) ==
    IF ~Has(content, "refresh_in") /\ expires_in >= RefreshThreshold
    THEN Put(content, "refresh_in", expires_in \div 2)
    ELSE content

\* line 183
RefreshOn(content, request_time) ==
    IF Has(content, "refresh_in") THEN request_time + content.refresh_in ELSE NoInt

NoEvent == [client_id |-> NoVal]

\* lines 168-199, on the cache and the content the refresh-token steps left
ChecksAndAdd(r, request, request_time) ==
    LET raised == RaiseForError(r.content)
    IN IF raised.format # NoVal
       THEN [cache |-> r.cache, outcome |-> "ClientAuthenticationError",
             token |-> NoToken, message |-> raised, event |-> NoEvent]
       ELSE IF ~Has(r.content, "expires_on") /\ ~Has(r.content, "expires_in")
       THEN [cache |-> r.cache, outcome |-> "ClientAuthenticationError",
             token |-> NoToken,
             message |-> [format |-> "Unexpected response from Microsoft Entra ID: {}",
                          args |-> ScrubSecrets(r.content)],
             event |-> NoEvent]
       ELSE LET expires_on == ExpiresOn(r.content, request_time)
                expires_in == ExpiresIn(r.content, expires_on, request_time)
                content2 == WithRefreshIn(r.content, expires_in)
                refresh_on == RefreshOn(content2, request_time)
            IN IF ~Has(content2, "access_token")
               THEN \* content["access_token"] raises KeyError
                    [cache |-> r.cache, outcome |-> "KeyError",
                     token |-> NoToken, message |-> NoMessage, event |-> NoEvent]
               ELSE LET token == AccessTokenInfo(
                                    content2.access_token, expires_on,
                                    IF Has(content2, "token_type")
                                    THEN content2.token_type ELSE "Bearer",
                                    refresh_on)
                        event == [client_id |-> ClientId,
                                  response |-> content2,
                                  scope |-> request.body.scope,
                                  token_endpoint |-> request.url]
                    IN [cache |-> Add(r.cache, event, request_time),
                        outcome |-> "AccessTokenInfo",
                        token |-> token, message |-> NoMessage, event |-> event]

\* _process_response once _get_cache has returned c: the cache afterwards, how the
\* call ends, the token returned, the error's message and the event given to cache.add
ProcessResponseOn(c, request, content, request_time) ==
    ChecksAndAdd(RefreshTokenSteps(c, request, content), request, request_time)

----------------------------------------------------------------------------
(* Inputs *)

Scopes == {<<"s1">>, <<"s1", "s2">>}
RefreshTokens == {"R1"}
Kwargs == {[enable_cae |-> b] : b \in BOOLEAN}

\* the requests whose responses are processed
Requests(kwargs) ==
    {RefreshTokenRequest(sc, rt, kwargs) : sc \in Scopes, rt \in RefreshTokens}
    \cup {ClientSecretRequest(sc, "secret", kwargs) : sc \in Scopes}

\* a dict with key k bound to one of vals, or without it
Opt(k, vals) == {EmptyDict} \cup {[x \in {k} |-> v] : v \in vals}

\* the secret-bearing fields of a response
SecretFields ==
    {Update(a, r) : a \in Opt("access_token", {"A1"}),
                    r \in Opt("refresh_token", {"R2"})}

\* decoded error responses
ErrorContents ==
    {Update(Update(e, d), x) :
        e \in {[error |-> x] : x \in {"invalid_grant", "invalid_client"}},
        d \in Opt("error_description", {"description"}),
        x \in SecretFields}

\* decoded responses with neither error nor expiry
MalformedContents == SecretFields

\* decoded responses with an expiry and no access_token
NoAccessTokenContents(request_time) ==
    {[expires_in |-> TickLen],
     [refresh_token |-> "R2", expires_on |-> request_time + TickLen]}

\* the expiry, refresh_in and token_type fields of a token response to a request
\* sent at request_time
TokenFields(request_time) ==
    {[expires_in |-> TickLen],
     [expires_in |-> RefreshThreshold],
     [expires_on |-> request_time + TickLen],
     [expires_on |-> request_time],
     [expires_on |-> request_time + TickLen, expires_in |-> RefreshThreshold],
     [expires_in |-> TickLen, refresh_in |-> TickLen \div 2],
     [expires_on |-> request_time + TickLen, token_type |-> "pop"]}

\* decoded token responses, with and without a refresh token
TokenContents(request_time) ==
    {Update(Update([access_token |-> "A1"], r), x) :
        r \in Opt("refresh_token", {"R1", "R2"}),
        x \in TokenFields(request_time)}

Contents(request_time) ==
    ErrorContents \cup MalformedContents
    \cup NoAccessTokenContents(request_time) \cup TokenContents(request_time)

\* a cache the caller filled with cache.add before giving it to the client
CallerCache(id, events) ==
    LET Fill[i \in 0..Len(events)] ==
            IF i = 0
            THEN [TokenCache(id) EXCEPT !.origin = "caller"]
            ELSE Add(Fill[i - 1], events[i], 0)
    IN Fill[Len(events)]

\* an event of another run: tokens cached for client_id, tenant and scope
Event(client_id, tenant, scope, response) ==
    [client_id |-> client_id, response |-> response, scope |-> scope,
     token_endpoint |-> <<Authority, tenant, "oauth2/v2.0/token">>]

SuppliedEvents ==
    {<<>>,
     \* one refresh token
     <<Event(ClientId, TenantId, <<"s1">>, [refresh_token |-> "R1"])>>,
     \* the same refresh token under two keys
     <<Event(ClientId, TenantId, <<"s1">>, [refresh_token |-> "R1"]),
       Event(ClientId, TenantId, <<"s1", "s2">>, [refresh_token |-> "R1"]),
       Event("c2", TenantId, <<"s1">>, [refresh_token |-> "R2"])>>,
     \* access tokens of another tenant and client, and two of this client
     <<Event(ClientId, "t2", <<"s1">>,
             [access_token |-> "A3", expires_in |-> 4 * TickLen]),
       Event("c2", TenantId, <<"s1">>,
             [access_token |-> "A4", expires_in |-> 4 * TickLen]),
       Event(ClientId, TenantId, <<"s1", "s2">>,
             [access_token |-> "A2", expires_in |-> 2 * TickLen,
              refresh_token |-> "R2"]),
       Event(ClientId, TenantId, <<"s1">>,
             [access_token |-> "A6", expires_in |-> 4 * TickLen,
              refresh_in |-> TickLen])>>}

SuppliedCaches == {CallerCache(1, evs) : evs \in SuppliedEvents}
SuppliedCaeCaches ==
    {CallerCache(2, <<Event(ClientId, TenantId, <<"s1">>,
                            [refresh_token |-> "R1", access_token |-> "A5",
                             expires_in |-> 4 * TickLen])>>)}

----------------------------------------------------------------------------
(* The state machine *)

NoState == EmptyDict
NoCalls == <<>>     \* no call is under way
Start == TickLen    \* the clock at construction

\* the constructions: AadClientBase(tenant_id, client_id, cache=..., cae_cache=...,
\* cache_persistence_options=...)
Clients ==
    {[cache |-> NoCache, cae_cache |-> NoCache, cache_options |-> o] : o \in BOOLEAN}
    \cup {[cache |-> c, cae_cache |-> NoCache, cache_options |-> FALSE] :
            c \in SuppliedCaches}
    \cup {[cache |-> c, cae_cache |-> k, cache_options |-> FALSE] :
            c \in {NoCache, CallerCache(1, <<>>)}, k \in SuppliedCaeCaches}

\* __init__
Init ==
    /\ \E client \in Clients :
          /\ cache = client.cache
          /\ cae_cache = client.cae_cache
          /\ cache_options = client.cache_options
    /\ tenant_id = TenantId
    /\ custom_cache = (~IsNone(cache) \/ ~IsNone(cae_cache))
    /\ now = Start
    /\ last = [op |-> "__init__"]
    /\ state = NoState
    /\ nextId = 3
    /\ responses = 0
    /\ calls = NoCalls

\* _process_response(response, request_time, **kwargs) for the response `content`
\* to `request`
ProcessResponseCall(kwargs, request, content, request_time) ==
    /\ CanGetCache(kwargs)
    /\ LET before == IF EnableCae(kwargs) THEN cae_cache ELSE cache
           r == ProcessResponseOn(GetCache(kwargs), request, content, request_time)
       IN /\ StoreCache(kwargs, r.cache)
          /\ last' = [op |-> "_process_response", kwargs |-> kwargs,
                      request |-> request, content |-> content,
                      request_time |-> request_time, before |-> before,
                      outcome |-> r.outcome, token |-> r.token,
                      message |-> r.message, event |-> r.event]
    /\ responses' = responses + 1
    /\ UNCHANGED <<calls, tenant_id, custom_cache, cache_options, now, state>>

\* one of the calls of a behaviour
ProcessResponseOf(kwargs, request, content, request_time) ==
    /\ responses < MaxResponses
    /\ ProcessResponseCall(kwargs, request, content, request_time)

\* a token request sent now and answered at once
ProcessResponse ==
    \E kwargs \in Kwargs :
       \E request \in Requests(kwargs), content \in Contents(now) :
          ProcessResponseOf(kwargs, request, content, now)

\* what a lookup remembers of the call before it: the token _process_response
\* returned, when that call was made with the lookup's scopes and kwargs
Summary(l, scopes, kwargs) ==
    IF /\ l.op = "_process_response"
       /\ l.outcome = "AccessTokenInfo"
       /\ l.kwargs = kwargs
       /\ l.request.body.scope = scopes
    THEN [op |-> l.op, event |-> l.event, request_time |-> l.request_time,
          token |-> l.token]
    ELSE [op |-> l.op]

\* FirstValid with a seeded fault: a token expiring now still counts as valid
FirstValidInclusive(tokens, t) ==
    LET Valid(token) == ParseInt(token.expires_on) >= t
        valid == SelectSeq(tokens, Valid)
    IN IF valid = <<>> THEN NoToken
       ELSE AccessTokenInfo(valid[1].secret, ParseInt(valid[1].expires_on),
                            IF Has(valid[1], "token_type")
                            THEN valid[1].token_type ELSE "Bearer",
                            IF Has(valid[1], "refresh_on")
                            THEN ParseInt(valid[1].refresh_on) ELSE NoInt)

\* lines 91-102: the first token of the search that has not expired at time t
\* get_cached_access_token(scopes, **kwargs)
FirstValid(tokens, t) ==
    LET Valid(token) == ParseInt(token.expires_on) > t
        valid == SelectSeq(tokens, Valid)
    IN IF valid = <<>> THEN NoToken
       ELSE AccessTokenInfo(valid[1].secret, ParseInt(valid[1].expires_on),
                            IF Has(valid[1], "token_type")
                            THEN valid[1].token_type ELSE "Bearer",
                            IF Has(valid[1], "refresh_on")
                            THEN ParseInt(valid[1].refresh_on) ELSE NoInt)

\* CachedAccessToken with a seeded fault: the query has no realm
CachedAccessTokenOfAnyRealm(c, scopes, kwargs, t) ==
    FirstValid(Search(c, AccessTokenType, scopes, [client_id |-> ClientId]), t)

CachedAccessToken(c, scopes, kwargs, t) ==
    FirstValid(Search(c, AccessTokenType, scopes,
                      [client_id |-> ClientId,
                       realm |-> ResolveTenant(tenant_id, kwargs)]), t)

\* cache.search(ACCESS_TOKEN, ...) run to its end at time t: msal passes over the
\* access tokens whose expires_on is before t and removes them (remove_at) once
\* it has gone through all entries
RemoveExpired(c, t) ==
    LET Keep(e) == ~(ParseInt(e.expires_on) < t)
    IN [c EXCEPT ![AccessTokenType] = SelectSeq(c[AccessTokenType], Keep)]

\* Searched with a seeded fault: the search is always run to its end, as with
\* list(cache.search(...))
SearchedToTheEnd(c, token, t) == RemoveExpired(c, t)

\* lines 91-102: the cache after the loop over cache.search; the return inside
\* the loop abandons the search before its end, `return None` follows its end
Searched(c, token, t) == IF token = NoToken THEN RemoveExpired(c, t) ELSE c

\* get_cached_access_token(scopes, **kwargs)
GetCachedAccessTokenOf(kwargs, scopes) ==
    /\ CanGetCache(kwargs)
    /\ LET c == GetCache(kwargs)
           token == CachedAccessToken(c, scopes, kwargs, now)
       IN /\ StoreCache(kwargs, Searched(c, token, now))
          /\ last' = [op |-> "get_cached_access_token", kwargs |-> kwargs,
                      scopes |-> scopes, time |-> now,
                      prev |-> Summary(last, scopes, kwargs),
                      before |-> c, token |-> token]
    /\ UNCHANGED <<calls, tenant_id, custom_cache, cache_options, now, state, responses>>

GetCachedAccessToken ==
    \E kwargs \in Kwargs, scopes \in Scopes : GetCachedAccessTokenOf(kwargs, scopes)

\* get_cached_refresh_tokens(scopes, **kwargs)
CachedRefreshTokens(c, scopes) == Search(c, RefreshTokenType, scopes, EmptyDict)

GetCachedRefreshTokens ==
    /\ \E kwargs \in Kwargs, scopes \in Scopes :
          /\ CanGetCache(kwargs)
          /\ LET c == GetCache(kwargs)
             IN /\ StoreCache(kwargs, c)
                /\ last' = [op |-> "get_cached_refresh_tokens", kwargs |-> kwargs,
                            scopes |-> scopes, time |-> now, before |-> c,
                            tokens |-> CachedRefreshTokens(c, scopes)]
    /\ UNCHANGED <<calls, tenant_id, custom_cache, cache_options, now, state, responses>>

\* __getstate__: self.__dict__.copy(), without the caches unless _custom_cache
GetStateDict ==
    LET dict == [_cache |-> cache, _cae_cache |-> cae_cache,
                 _custom_cache |-> custom_cache, _cache_options |-> cache_options]
    IN IF ~custom_cache THEN Del(Del(dict, "_cache"), "_cae_cache") ELSE dict

GetState ==
    /\ state' = GetStateDict
    /\ last' = [op |-> "__getstate__"]
    /\ UNCHANGED <<calls, tenant_id, cache, cae_cache, custom_cache, cache_options, now, nextId, responses>>

\* __setstate__(state) on the unpickled object
SetState ==
    /\ state # NoState
    /\ custom_cache' = state._custom_cache
    /\ cache_options' = state._cache_options
    /\ cache' = IF ~state._custom_cache THEN NoCache
                ELSE IF Has(state, "_cache") THEN state._cache ELSE cache
    /\ cae_cache' = IF ~state._custom_cache THEN NoCache
                    ELSE IF Has(state, "_cae_cache") THEN state._cae_cache ELSE cae_cache
    /\ last' = [op |-> "__setstate__"]
    /\ UNCHANGED <<calls, tenant_id, now, state, nextId, responses>>

\* time passes
Tick ==
    /\ now < Start + MaxTicks * TickLen
    /\ now' = now + TickLen
    /\ UNCHANGED <<calls, tenant_id, cache, cae_cache, custom_cache, cache_options, last, state, nextId,
                 responses>>

\* the token operations of a client
Next ==
    \/ ProcessResponse
    \/ GetCachedAccessToken
    \/ GetCachedRefreshTokens
    \/ Tick

Spec == Init /\ [][Next]_vars

\* a token response that is cached: an access token and a new refresh token
PickledContents == {[access_token |-> "A1", refresh_token |-> "R2", expires_in |-> TickLen]}

ProcessTokenResponse ==
    \E kwargs \in Kwargs :
       \E request \in Requests(kwargs), content \in PickledContents :
          ProcessResponseOf(kwargs, request, content, now)

\* the token operations of a client that is pickled and unpickled in between
PickleNext ==
    \/ ProcessTokenResponse
    \/ GetCachedAccessToken
    \/ GetCachedRefreshTokens
    \/ GetState
    \/ SetState

SpecPickle == Init /\ [][PickleNext]_vars

\* token responses with every combination of expires_on, expires_in and
\* refresh_in absent or present, with lifetimes of 0, below, at and above 7200
ExpiryContents(request_time) ==
    {Update(Update(Update([access_token |-> "A1"], on), in), rin) :
        on \in Opt("expires_on",
                   {request_time + d :
                       d \in {0, TickLen, RefreshThreshold - 1, RefreshThreshold,
                              2 * RefreshThreshold + 1}}),
        in \in Opt("expires_in",
                   {0, TickLen, RefreshThreshold - 1, RefreshThreshold,
                    RefreshThreshold + 1, 2 * RefreshThreshold + 1}),
        rin \in Opt("refresh_in", {0, TickLen \div 2})}

ProcessExpiryResponse ==
    \E kwargs \in Kwargs :
       \E request \in Requests(kwargs), content \in ExpiryContents(now) :
          ProcessResponseOf(kwargs, request, content, now)

\* the responses of a token endpoint, by their expiry fields
ExpiryNext ==
    \/ ProcessExpiryResponse
    \/ Tick

SpecExpiry == Init /\ [][ExpiryNext]_vars

\* the tenant ids a client is constructed with
TenantIds == {"t1", "adfs", "ADFS"}

Certificates == {"cert1", "cert2"}

\* the values uuid.uuid4() returns
Jtis == {"u1", "u2"}

\* a claims challenge a caller passes as `claims`
SomeChallenge ==
    JsonDumps(JsonObject([access_token |->
        JsonObject([nbf |-> JsonObject([essential |-> TRUE])])]))

\* the keyword arguments of a request: enable_cae, an optional tenant_id among
\* the additionally allowed tenants when the client's tenant is not ADFS, and
\* an optional claims challenge
RequestKwargs ==
    LET tenants == IF IsAdfs THEN {} ELSE AdditionallyAllowedTenants
    IN {Update(Update([enable_cae |-> b], t), c) :
           b \in BOOLEAN, t \in Opt("tenant_id", tenants),
           c \in Opt("claims", {SomeChallenge})}

\* the client_credential arguments of the on-behalf-of requests
ClientCredentials ==
    {CertificateCredential(c) : c \in Certificates}
    \cup {AssertionCredential("assertion1"), SecretCredential("secret1")}

\* __init__ of a client of one of the tenants, without caches
InitRequests ==
    /\ tenant_id \in TenantIds
    /\ cache = NoCache
    /\ cae_cache = NoCache
    /\ cache_options = FALSE
    /\ custom_cache = FALSE
    /\ now = Start
    /\ last = [op |-> "__init__"]
    /\ state = NoState
    /\ nextId = 3
    /\ responses = 0
    /\ calls = NoCalls

\* a builder's call and the request it returned
Built(op, kwargs, client_credential, request) ==
    /\ last' = [op |-> op, kwargs |-> kwargs, client_credential |-> client_credential,
                request |-> request, time |-> now]
    /\ UNCHANGED <<calls, tenant_id, cache, cae_cache, custom_cache, cache_options, now, state,
                   nextId, responses>>

GetClientCertificateRequest ==
    \E kwargs \in RequestKwargs, scopes \in Scopes, certificate \in Certificates,
       jti \in Jtis :
       Built("_get_client_certificate_request", kwargs,
             CertificateCredential(certificate),
             ClientCertificateRequest(scopes, certificate, kwargs, jti, now))

GetOnBehalfOfRequest ==
    \E kwargs \in RequestKwargs, scopes \in Scopes,
       client_credential \in ClientCredentials, jti \in Jtis :
       Built("_get_on_behalf_of_request", kwargs, client_credential,
             OnBehalfOfRequest(scopes, client_credential, "user1", kwargs, jti, now))

GetRefreshTokenOnBehalfOfRequest ==
    \E kwargs \in RequestKwargs, scopes \in Scopes,
       client_credential \in ClientCredentials, jti \in Jtis :
       Built("_get_refresh_token_on_behalf_of_request", kwargs, client_credential,
             RefreshTokenOnBehalfOfRequest(scopes, client_credential, "R1", kwargs,
                                           jti, now))

\* the capability lists and the claims challenges of the merge
Capabilities == {<<>>, <<"CP1">>, <<"CP1", "CP2">>}

AccessTokenMembers ==
    {JsonNull, JsonString("x"), JsonArray(<<>>), JsonObject(EmptyDict),
     JsonObject([nbf |-> JsonObject([essential |-> TRUE])]),
     JsonObject([xms_cc |-> JsonObject([values |-> JsonArray(<<"old">>)])]),
     JsonObject([nbf |-> JsonObject([essential |-> TRUE]),
                 xms_cc |-> JsonObject([values |-> JsonArray(<<"old">>)])])}

ClaimsChallenges ==
    {NoText, EmptyText, MalformedText}
    \cup {JsonDumps(v) : v \in {JsonNull, JsonString("x"), JsonArray(<<>>)}}
    \cup {JsonDumps(JsonObject(Update(a, i))) :
             a \in Opt("access_token", AccessTokenMembers),
             i \in Opt("id_token", {JsonObject([acr |-> JsonNull])})}

\* a call of _merge_claims_challenge_and_capabilities
MergeClaims ==
    \E capabilities \in Capabilities, claims_challenge \in ClaimsChallenges :
       /\ last' = [op |-> "_merge_claims_challenge_and_capabilities",
                   capabilities |-> capabilities,
                   claims_challenge |-> claims_challenge,
                   result |-> MergeClaimsChallengeAndCapabilities(capabilities,
                                                                  claims_challenge)]
       /\ UNCHANGED <<calls, tenant_id, cache, cae_cache, custom_cache, cache_options, now,
                      state, nextId, responses>>

\* the requests a client builds
RequestNext ==
    \/ GetClientCertificateRequest
    \/ GetOnBehalfOfRequest
    \/ GetRefreshTokenOnBehalfOfRequest
    \/ MergeClaims
    \/ Tick

SpecRequests == InitRequests /\ [][RequestNext]_vars

\* the keyword arguments of a call: enable_cae and an optional tenant_id among
\* the additionally allowed tenants
TenantKwargs ==
    {Update([enable_cae |-> b], t) :
        b \in BOOLEAN, t \in Opt("tenant_id", AdditionallyAllowedTenants)}

\* the access token an endpoint issues: one for each client id, tenant, use of
\* CAE and scope list
IssuedToken(client_id, tenant, cae, scopes) ==
    "A" \o "/" \o client_id \o "/" \o tenant
        \o (IF cae THEN "/cae" ELSE "/-")
        \o (IF scopes = <<"s1">> THEN "/s1" ELSE "/s1 s2")

\* the response to a request: the token issued for the request's client id,
\* the tenant of its URL and its scopes
IssuedContent(request, kwargs) ==
    [access_token |-> IssuedToken(request.body.client_id, Realm(request.url),
                                  EnableCae(kwargs), request.body.scope),
     expires_in |-> TickLen]

\* what clients of other ids and tenants have put in a cache shared with them
OthersEvents(cae) ==
    <<Event("c2", TenantId, <<"s1", "s2">>,
            [access_token |-> IssuedToken("c2", TenantId, cae, <<"s1", "s2">>),
             expires_in |-> 4 * TickLen]),
      Event("c2", "t2", <<"s1">>,
            [access_token |-> IssuedToken("c2", "t2", cae, <<"s1">>),
             expires_in |-> 4 * TickLen]),
      Event(ClientId, "t3", <<"s1", "s2">>,
            [access_token |-> IssuedToken(ClientId, "t3", cae, <<"s1", "s2">>),
             expires_in |-> 4 * TickLen])>>

\* __init__ with no cache or with caches other clients have used
InitTenants ==
    /\ tenant_id = TenantId
    /\ \/ cache = NoCache /\ cae_cache = NoCache
       \/ /\ cache = CallerCache(1, OthersEvents(FALSE))
          /\ cae_cache = CallerCache(2, OthersEvents(TRUE))
    /\ cache_options = FALSE
    /\ custom_cache = (~IsNone(cache) \/ ~IsNone(cae_cache))
    /\ now = Start
    /\ last = [op |-> "__init__"]
    /\ state = NoState
    /\ nextId = 3
    /\ responses = 0
    /\ calls = NoCalls

\* a client-secret request for a tenant, answered at once with a token
ProcessTenantResponse ==
    \E kwargs \in TenantKwargs, scopes \in Scopes :
       LET request == ClientSecretRequest(scopes, "secret", kwargs)
       IN /\ responses < MaxTenantResponses
          /\ ProcessResponseCall(kwargs, request, IssuedContent(request, kwargs), now)

GetCachedTenantAccessToken ==
    \E kwargs \in TenantKwargs, scopes \in Scopes : GetCachedAccessTokenOf(kwargs, scopes)

\* token responses and lookups for the client's tenant and the allowed ones
TenantNext ==
    \/ ProcessTenantResponse
    \/ GetCachedTenantAccessToken
    \/ Tick

SpecTenants == InitTenants /\ [][TenantNext]_vars

\* Two threads call _process_response on the same client at once.  msal takes
\* the cache's lock inside search, remove_rt, update_rt and add, so each of these
\* is one step; the source holds no lock from one of them to the next.
Threads == {1, 2}

\* the refresh token both threads have redeemed
Redeemed == "R1"

\* the refresh token the endpoint issues to a thread
Issued(thread) == IF thread = 1 THEN "R2" ELSE "R3"

\* the decoded responses to a thread's request: a token with a new refresh
\* token, the same with no expiry, and the rejection of the redeemed one
RaceContents(thread) ==
    {[access_token |-> "A1", expires_in |-> TickLen, refresh_token |-> Issued(thread)],
     [access_token |-> "A1", refresh_token |-> Issued(thread)],
     [error |-> "invalid_grant", error_description |-> "description"]}

\* the caches of the client: one entry holds the redeemed refresh token
RaceCaches ==
    {CallerCache(1, <<Event(ClientId, TenantId, <<"s1">>,
                            [refresh_token |-> Redeemed])>>),
     CallerCache(1, <<Event(ClientId, TenantId, <<"s1">>,
                            [refresh_token |-> Redeemed]),
                      Event(ClientId, TenantId, <<"s1", "s2">>,
                            [refresh_token |-> "R0"])>>)}

Idle == [pc |-> "idle"]

\* __init__ with a cache, and no call under way
InitRace ==
    /\ tenant_id = TenantId
    /\ cache \in RaceCaches
    /\ cae_cache = NoCache
    /\ cache_options = FALSE
    /\ custom_cache = TRUE
    /\ now = Start
    /\ last = [op |-> "__init__"]
    /\ state = NoState
    /\ nextId = 3
    /\ responses = 0
    /\ calls = [thread \in Threads |-> Idle]

\* where a call goes after line 144 and after the eviction
AfterEviction(content) ==
    IF Has(content, "refresh_token") THEN "rotate_search" ELSE "checks"

AfterEntry(request, content) ==
    IF Get(request.body, "grant_type") # "refresh_token" THEN "checks"
    ELSE IF Get(content, "error") = "invalid_grant" THEN "evict_search"
    ELSE AfterEviction(content)

\* a step of a thread's call that leaves the cache alone
Local(thread, call, op) ==
    /\ calls' = [calls EXCEPT ![thread] = call]
    /\ last' = [op |-> op, thread |-> thread]
    /\ UNCHANGED <<tenant_id, cache, cae_cache, custom_cache, cache_options, now, state,
                   nextId, responses>>

\* lines 138-143: the call is entered with the response to a refresh-token request
Enter(thread) ==
    /\ calls[thread].pc = "idle"
    /\ \E scopes \in Scopes, content \in RaceContents(thread) :
          LET request == RefreshTokenRequest(scopes, Redeemed, [enable_cae |-> FALSE])
          IN Local(thread,
                   [pc |-> AfterEntry(request, content), request |-> request,
                    response |-> content, content |-> content,
                    cache_entries |-> <<>>, found |-> NoInt, outcome |-> NoVal],
                   "_process_response")

\* lines 146-151: list(cache.search(...)) of the invalid_grant path
EvictSearch(thread) ==
    LET call == calls[thread]
        cache_entries == Search(cache, RefreshTokenType, <<>>,
                                [secret |-> call.request.body.refresh_token])
    IN /\ call.pc = "evict_search"
       /\ Local(thread,
                [call EXCEPT !.cache_entries = cache_entries,
                             !.pc = IF cache_entries = <<>>
                                    THEN AfterEviction(call.content)
                                    ELSE "evict_remove"],
                "search")

\* lines 152-153: one cache.remove_rt(invalid_token) of the loop
EvictRemove(thread) ==
    LET call == calls[thread]
        invalid_token == Head(call.cache_entries)
        AtKey(e) == KeyOf(RefreshTokenType, e) = KeyOf(RefreshTokenType, invalid_token)
    IN /\ call.pc = "evict_remove"
       /\ cache' = RemoveRt(cache, invalid_token)
       /\ calls' = [calls EXCEPT ![thread] =
                       [call EXCEPT !.cache_entries = Tail(call.cache_entries),
                                    !.pc = IF Tail(call.cache_entries) = <<>>
                                           THEN AfterEviction(call.content)
                                           ELSE "evict_remove"]]
       /\ last' = [op |-> "remove_rt", thread |-> thread,
                   rejected |-> call.request.body.refresh_token,
                   removed |-> SelectSeq(cache[RefreshTokenType], AtKey)]
       /\ UNCHANGED <<tenant_id, cae_cache, custom_cache, cache_options, now, state,
                      nextId, responses>>

\* lines 156-161: list(cache.search(...)) of the rotation
RotateSearch(thread) ==
    LET call == calls[thread]
        cache_entries == Search(cache, RefreshTokenType, <<>>,
                                [secret |-> call.request.body.refresh_token])
    IN /\ call.pc = "rotate_search"
       /\ Local(thread,
                [call EXCEPT !.cache_entries = cache_entries,
                             !.found = Len(cache_entries),
                             !.pc = "rotate_update"],
                "search")

\* lines 164-166: cache.update_rt and del content["refresh_token"], or nothing
RotateUpdate(thread) ==
    LET call == calls[thread]
        r == RotateUpdated(cache, call.cache_entries, call.content)
    IN /\ call.pc = "rotate_update"
       /\ cache' = r.cache
       /\ calls' = [calls EXCEPT ![thread] =
                       [call EXCEPT !.content = r.content, !.pc = "checks"]]
       /\ last' = [op |-> "update_rt", thread |-> thread]
       /\ UNCHANGED <<tenant_id, cae_cache, custom_cache, cache_options, now, state,
                      nextId, responses>>

\* lines 168-199: the checks, cache.add and the return
Return(thread) ==
    LET call == calls[thread]
        r == ChecksAndAdd([cache |-> cache, content |-> call.content], call.request, now)
    IN /\ call.pc = "checks"
       /\ cache' = r.cache
       /\ calls' = [calls EXCEPT ![thread] =
                       [call EXCEPT !.outcome = r.outcome, !.pc = "done"]]
       /\ last' = [op |-> "return", thread |-> thread]
       /\ UNCHANGED <<tenant_id, cae_cache, custom_cache, cache_options, now, state,
                      nextId, responses>>

\* the steps of the two calls, in any order
RaceNext ==
    \E thread \in Threads :
       \/ Enter(thread)
       \/ EvictSearch(thread)
       \/ EvictRemove(thread)
       \/ RotateSearch(thread)
       \/ RotateUpdate(thread)
       \/ Return(thread)

SpecRace == InitRace /\ [][RaceNext]_vars

----------------------------------------------------------------------------
(* Vocabulary of the properties *)

\* the cache a call with these kwargs uses, as it is now
Selected(kwargs) == IF EnableCae(kwargs) THEN cae_cache ELSE cache

\* the entries of a cache field that may be None
Entries(c, credential_type) == IF IsNone(c) THEN <<>> ELSE c[credential_type]

\* the refresh-token entries of c with this secret, in cache order
WithSecret(c, secret) ==
    LET Same(e) == e.secret = secret
    IN SelectSeq(Entries(c, RefreshTokenType), Same)

Processed == last.op = "_process_response"
RefreshGrant == Processed /\ Get(last.request.body, "grant_type") = "refresh_token"
OldSecret == last.request.body.refresh_token
After == Selected(last.kwargs)

Range(seq) == {seq[i] : i \in DOMAIN seq}

\* the strings an error message shows
Shown(message) ==
    {message.args[k] : k \in DOMAIN message.args
                            \cap {"error", "error_description", "access_token",
                                  "refresh_token", "token_type"}}

\* the secrets a decoded response carries
Secrets(content) ==
    {content[k] : k \in DOMAIN content \cap {"access_token", "refresh_token"}}

ErrorFormats ==
    {"Microsoft Entra ID error '({}) {}'", "Microsoft Entra ID error '{}'"}

----------------------------------------------------------------------------
(* C1 *)

\* C1: after _process_response handled an invalid_grant response to a
\* refresh-token grant, the call has ended in ClientAuthenticationError and no
\* refresh-token entry of the selected cache has the request's refresh token as
\* its secret, however many entries had it before.
C1_InvalidGrantEvicts ==
    (RefreshGrant /\ Get(last.content, "error") = "invalid_grant")
    => /\ last.outcome = "ClientAuthenticationError"
       /\ WithSecret(After, OldSecret) = <<>>

\* two entries had the secret, both are gone and an entry of another secret stays
C1_Witness ==
    /\ RefreshGrant
    /\ Get(last.content, "error") = "invalid_grant"
    /\ Len(WithSecret(last.before, OldSecret)) = 2
    /\ WithSecret(After, OldSecret) = <<>>
    /\ Len(Entries(After, RefreshTokenType)) = 1

----------------------------------------------------------------------------
(* C2 *)

\* a refresh-token grant whose response has a refresh_token, with exactly one
\* entry of the old secret in the cache before the call
OneMatch ==
    /\ RefreshGrant
    /\ Has(last.content, "refresh_token")
    /\ Len(WithSecret(last.before, OldSecret)) = 1

\* that entry now holds the new secret, no entry was added for the rotation and
\* the content given to cache.add has no refresh_token
Rotated ==
    LET old == WithSecret(last.before, OldSecret)[1]
        AtKey(e) == KeyOf(RefreshTokenType, e) = KeyOf(RefreshTokenType, old)
        now_there == SelectSeq(Entries(After, RefreshTokenType), AtKey)
    IN /\ Len(now_there) = 1
       /\ now_there[1].secret = last.content.refresh_token
       /\ Len(Entries(After, RefreshTokenType))
            = Len(Entries(last.before, RefreshTokenType))
       /\ (last.event.client_id # NoVal => ~Has(last.event.response, "refresh_token"))

\* C2 as claimed: whenever a refresh-token-grant response has a refresh_token and
\* exactly one entry has the old secret, the entry is rotated and the cached
\* content has no refresh_token.
C2_AsClaimed == OneMatch => Rotated

\* C2 (amended): the same, for responses whose error is not invalid_grant (such a
\* response evicts the entry before the rotation step looks for it).
C2_RotatesSingleEntry ==
    (OneMatch /\ Get(last.content, "error") # "invalid_grant") => Rotated

\* a token response rotated R1 to R2 and the token was cached
C2_Witness ==
    /\ OneMatch
    /\ last.outcome = "AccessTokenInfo"
    /\ last.content.refresh_token # OldSecret
    /\ Rotated

----------------------------------------------------------------------------
(* C3 *)

\* a completed refresh-token grant whose response has a new refresh_token, with
\* zero or several entries of the old secret in the cache before the call
Ambiguous ==
    /\ RefreshGrant
    /\ last.outcome = "AccessTokenInfo"
    /\ Has(last.content, "refresh_token")
    /\ last.content.refresh_token # OldSecret
    /\ Len(WithSecret(last.before, OldSecret)) # 1

\* C3: when zero or several entries have the old secret, the entries of the old
\* secret are the same after the call, its cache.add included, as before it.
C3_AmbiguousUnchanged ==
    Ambiguous => WithSecret(After, OldSecret) = WithSecret(last.before, OldSecret)

----------------------------------------------------------------------------
(* C4 *)

Malformed ==
    /\ Processed
    /\ ~Has(last.content, "error")
    /\ ~Has(last.content, "expires_on")
    /\ ~Has(last.content, "expires_in")

\* C4: a response with none of error, expires_on and expires_in makes the call
\* end in ClientAuthenticationError with a message that shows no access_token or
\* refresh_token value of the response.
C4_MalformedScrubbed ==
    Malformed
    => /\ last.outcome = "ClientAuthenticationError"
       /\ last.message.format = "Unexpected response from Microsoft Entra ID: {}"
       /\ Secrets(last.content) \cap Shown(last.message) = {}

\* the rotation was applied first, and the message shows the masked access token
C4_Witness ==
    /\ Malformed
    /\ OneMatch
    /\ WithSecret(After, last.content.refresh_token) # <<>>
    /\ Has(last.message.args, "access_token")
    /\ last.message.args.access_token = "***"
    /\ ~Has(last.message.args, "refresh_token")

----------------------------------------------------------------------------
(* C5 *)

\* C5: a response with an error field makes the call end in
\* ClientAuthenticationError, with a message built from the scrubbed content, no
\* token, no cache.add and the access-token entries as they were.
C5_ErrorRaises ==
    (Processed /\ Has(last.content, "error"))
    => /\ last.outcome = "ClientAuthenticationError"
       /\ last.message.format \in ErrorFormats
       /\ Secrets(last.content) \cap Shown(last.message) = {}
       /\ last.token = NoToken
       /\ last.event = NoEvent
       /\ Entries(After, AccessTokenType) = Entries(last.before, AccessTokenType)

\* an error response with secrets and no description: the message shows the
\* content with both masked, and the cache holds access tokens that stayed
C5_Witness ==
    /\ Processed
    /\ Has(last.content, "error")
    /\ Has(last.content, "access_token")
    /\ Has(last.content, "refresh_token")
    /\ last.message.format = "Microsoft Entra ID error '{}'"
    /\ Get(last.message.args, "access_token") = "***"
    /\ Get(last.message.args, "refresh_token") = "***"
    /\ Entries(After, AccessTokenType) # <<>>

----------------------------------------------------------------------------
(* C6 *)

\* C6: every _process_response call returns an AccessTokenInfo or raises
\* ClientAuthenticationError.
C6_TokenOrAuthenticationError ==
    Processed => last.outcome \in {"AccessTokenInfo", "ClientAuthenticationError"}

----------------------------------------------------------------------------
(* C7 *)

Looked == last.op = "get_cached_access_token"

\* the lookup directly follows a successful _process_response made with the
\* lookup's scopes and kwargs, and the token that call returned has not expired
RoundTrip ==
    /\ Looked
    /\ Has(last.prev, "token")
    /\ last.prev.token.expires_on > last.time

\* the access-token entries the lookup's search yields, in cache order
Found ==
    LET OfClient(e) == /\ e.client_id = ClientId
                       /\ e.realm = ResolveTenant(tenant_id, last.kwargs)
                       /\ Target(last.scopes) \subseteq e.target
    IN SelectSeq(Entries(Selected(last.kwargs), AccessTokenType), OfClient)

Unexpired(e) == ParseInt(e.expires_on) > last.time

\* no unexpired entry of other scopes comes before the entry of the lookup's
\* scopes in the search
NothingEarlier ==
    \A i \in DOMAIN Found :
        (Unexpired(Found[i]) /\ Found[i].target # Target(last.scopes))
        => \E j \in 1..(i - 1) : Found[j].target = Target(last.scopes)

\* the response's expires_on and expires_in, when it has both, name the same time
ExpiryAgrees ==
    LET response == last.prev.event.response
    IN (Has(response, "expires_on") /\ Has(response, "expires_in"))
       => response.expires_on = last.prev.request_time + response.expires_in

\* C7: a lookup that directly follows a successful _process_response with the
\* same scopes and kwargs returns the token that call returned (same token,
\* expires_on, token_type and refresh_on), if that token has not expired.
C7_RoundTrip == RoundTrip => last.token = last.prev.token

\* what holds of the round trip: the tokens are equal when no unexpired entry of
\* other scopes precedes the new entry in the search and the response's
\* expires_on and expires_in agree
RoundTripWhenAgreeing ==
    (RoundTrip /\ NothingEarlier /\ ExpiryAgrees) => last.token = last.prev.token

\* such a round trip: the response had expires_in only and refresh_in was
\* synthesized; the lookup was made an hour later, from a cache that held other
\* tokens of the client
RoundTripSeen ==
    /\ RoundTrip
    /\ NothingEarlier
    /\ last.time > last.prev.request_time
    /\ ~Has(last.prev.event.response, "expires_on")
    /\ last.prev.token.refresh_on # NoInt
    /\ Len(Found) > 1
    /\ last.token = last.prev.token

----------------------------------------------------------------------------
(* C10 *)

\* C10: get_cached_access_token returns the first entry of its search whose
\* expires_on is greater than the time of the call, as an AccessTokenInfo of that
\* entry, and None when there is no such entry; a returned token's expires_on is
\* greater than the time of the call.
C10_FirstUnexpired ==
    Looked
    => LET valid == {i \in DOMAIN Found : Unexpired(Found[i])}
       IN IF valid = {}
          THEN last.token = NoToken
          ELSE LET first == Found[CHOOSE i \in valid : \A j \in valid : i <= j]
               IN /\ last.token.token = first.secret
                  /\ last.token.expires_on = ParseInt(first.expires_on)
                  /\ last.token.expires_on > last.time

\* the first entry found expires at the time of the call and is passed over for
\* a later one
C10_Witness ==
    /\ Looked
    /\ Len(Found) > 1
    /\ ParseInt(Found[1].expires_on) = last.time
    /\ last.token # NoToken
    /\ last.token.token # Found[1].secret

----------------------------------------------------------------------------
(* C8 *)

CacheFields == {"_cache", "_cae_cache"}

\* C8: a snapshot of a client whose caches were created internally has neither
\* cache and a restore of it leaves both fields None; a snapshot of a client that
\* was given caches has the fields as they are; and no cache object that the
\* client created itself is in a snapshot.
C8_SnapshotWithoutInternalCaches ==
    /\ (last.op = "__getstate__" /\ ~custom_cache)
       => DOMAIN state \cap CacheFields = {}
    /\ (last.op = "__setstate__" /\ ~custom_cache)
       => (IsNone(cache) /\ IsNone(cae_cache))
    /\ (last.op = "__getstate__" /\ custom_cache)
       => (state._cache = cache /\ state._cae_cache = cae_cache)
    /\ \A k \in DOMAIN state \cap CacheFields :
          ~IsNone(state[k]) => state[k].origin = "caller"

----------------------------------------------------------------------------
(* C9 *)

\* the step is a call made with kwargs: last' records it
Called == Has(last', "kwargs") /\ last' # last

\* C9: a call with enable_cae leaves the normal cache field as it is and a call
\* without it the CAE cache field; the cache of the call's type is created when
\* the field is None and is the same object afterwards when it is not; a lookup
\* leaves the entries of an existing cache as they are and returns a token of the
\* cache of its type.
C9_OneCachePerType ==
    [][Called =>
        LET cae == EnableCae(last'.kwargs)
            used == IF cae THEN cae_cache ELSE cache
            used_after == IF cae THEN cae_cache' ELSE cache'
            other == IF cae THEN cache ELSE cae_cache
            other_after == IF cae THEN cache' ELSE cae_cache'
            found == {e.secret : e \in Range(Entries(used_after, AccessTokenType))}
        IN /\ other_after = other
           /\ ~IsNone(used_after)
           /\ IsNone(used) => (used_after.id = nextId /\ used_after.origin = "internal")
           /\ ~IsNone(used) => used_after.id = used.id
           /\ (~IsNone(used) /\ last'.op # "_process_response")
              => used_after \in {used, RemoveExpired(used, now)}
           /\ (last'.op = "get_cached_access_token" /\ last'.token # NoToken)
              => last'.token.token \in found
    ]_vars

\* a token was returned from a CAE cache that the client created itself, next to
\* a normal cache of the caller's that holds other tokens
C9_Witness ==
    /\ Looked
    /\ EnableCae(last.kwargs)
    /\ last.token # NoToken
    /\ cae_cache.origin = "internal"
    /\ ~IsNone(cache)
    /\ cache.origin = "caller"
    /\ Entries(cache, AccessTokenType) # <<>>
    /\ cache.id # cae_cache.id

----------------------------------------------------------------------------
(* C11 *)

LookedUp == last.op \in {"get_cached_access_token", "get_cached_refresh_tokens"}

\* C11 as claimed: after a lookup the cache it used has the entries it had when
\* _get_cache returned it.
C11_AsClaimed == LookedUp => After = last.before

\* C11 (amended): a lookup leaves the refresh-token entries as they were and the
\* access-token entries too, in their order, but for those whose expires_on is
\* before the time of the call, which are gone after a get_cached_access_token
\* that returned None.
C11_LookupsKeepUnexpired ==
    LookedUp
    => LET Stays(e) == \/ last.op = "get_cached_refresh_tokens"
                       \/ last.token # NoToken
                       \/ ParseInt(e.expires_on) >= last.time
       IN /\ After.id = last.before.id
          /\ After.RefreshToken = last.before.RefreshToken
          /\ After.AccessToken = SelectSeq(last.before.AccessToken, Stays)

\* a lookup that returned None removed an expired token and left one that expires
\* at the time of the call
C11_Witness ==
    /\ Looked
    /\ last.token = NoToken
    /\ Len(After.AccessToken) < Len(last.before.AccessToken)
    /\ \E i \in DOMAIN After.AccessToken :
          ParseInt(After.AccessToken[i].expires_on) = last.time

----------------------------------------------------------------------------
(* C12 *)

Succeeded == Processed /\ last.outcome = "AccessTokenInfo"

\* request_time + refresh_in when the response has refresh_in, else
\* request_time + expires_in // 2 when expires_in >= 7200, else None
RefreshOnFor(expires_in) ==
    IF Has(last.content, "refresh_in")
    THEN last.request_time + last.content.refresh_in
    ELSE IF expires_in >= 7200
    THEN last.request_time + expires_in \div 2
    ELSE NoInt

\* expires_on - request_time, for the expires_on of the response or, without
\* one, request_time + expires_in
DerivedExpiresIn ==
    IF Has(last.content, "expires_on")
    THEN last.content.expires_on - last.request_time
    ELSE last.content.expires_in

\* C12 as claimed: the returned token's refresh_on is RefreshOnFor(expires_in),
\* where expires_in is the response's field if present and expires_on -
\* request_time otherwise.
C12_AsClaimed ==
    Succeeded
    => last.token.refresh_on
         = RefreshOnFor(IF Has(last.content, "expires_in")
                        THEN last.content.expires_in ELSE DerivedExpiresIn)

\* C12 (amended): the same, where expires_in is the response's field if present
\* and not 0, and expires_on - request_time otherwise.
C12_RefreshOn ==
    Succeeded
    => last.token.refresh_on
         = RefreshOnFor(IF Has(last.content, "expires_in")
                           /\ last.content.expires_in # 0
                        THEN last.content.expires_in ELSE DerivedExpiresIn)

\* expires_in=7200 and no refresh_in give request_time + 3600
C12_Witness ==
    /\ Succeeded
    /\ ~Has(last.content, "refresh_in")
    /\ Has(last.content, "expires_in")
    /\ last.content.expires_in = 7200
    /\ last.token.refresh_on = last.request_time + 3600

----------------------------------------------------------------------------
(* C16 *)

UnexpectedResponse ==
    last.message.format = "Unexpected response from Microsoft Entra ID: {}"

\* C16: the token _process_response returns has the response's expires_on when
\* the response has one, with or without expires_in, and request_time +
\* expires_in otherwise; the call fails over the expiry, with the secrets masked
\* in its message, exactly when the response has neither field (and no error).
C16_ExpiresOn ==
    Processed
    => /\ Succeeded
          => last.token.expires_on
               = IF Has(last.content, "expires_on")
                 THEN last.content.expires_on
                 ELSE last.request_time + last.content.expires_in
       /\ UnexpectedResponse
          <=> /\ ~Has(last.content, "expires_on")
              /\ ~Has(last.content, "expires_in")
              /\ ~Has(last.content, "error")
       /\ UnexpectedResponse
          => /\ last.outcome = "ClientAuthenticationError"
             /\ Secrets(last.content) \cap Shown(last.message) = {}

\* the response has both fields and they name different times
C16_Witness ==
    /\ Succeeded
    /\ Has(last.content, "expires_on")
    /\ Has(last.content, "expires_in")
    /\ last.content.expires_on # last.request_time + last.content.expires_in
    /\ last.token.expires_on = last.content.expires_on

----------------------------------------------------------------------------
(* C13 *)

\* a request was built with a certificate as the client credential
WithCertificate ==
    /\ last.op \in {"_get_client_certificate_request", "_get_on_behalf_of_request",
                    "_get_refresh_token_on_behalf_of_request"}
    /\ last.client_credential.kind = "certificate"

\* the decoded segments of the last request's client assertion
AssertionHeader == UrlsafeB64decode(last.request.body.client_assertion[1]).json
AssertionPayload == UrlsafeB64decode(last.request.body.client_assertion[2]).json
AssertionSignature == UrlsafeB64decode(last.request.body.client_assertion[3])

\* C13: every client-certificate assertion built for a request (certificate
\* grant, both on-behalf-of requests, with or without a tenant override) has
\* exp - nbf = 1800, iss = sub = client_id and aud equal to the token endpoint
\* URL of that same request.
C13_AssertionPayload ==
    WithCertificate =>
        /\ AssertionPayload.exp - AssertionPayload.nbf = 1800
        /\ AssertionPayload.iss = ClientId
        /\ AssertionPayload.sub = ClientId
        /\ AssertionPayload.aud = last.request.url

----------------------------------------------------------------------------
(* C14 *)

\* the thumbprint keys of a header
ThumbprintKeys(header) == DOMAIN header \cap {"x5t", "x5t#S256"}

\* C14: with a tenant id that is "adfs" in any case the assertion has alg
\* RS256, the SHA-1 thumbprint under x5t and an RS256 signature; otherwise alg
\* PS256, the SHA-256 thumbprint under x5t#S256 and a PS256 signature; the
\* signature is made over the first two segments with the header's alg, and
\* exactly one thumbprint key is present.
C14_HeaderAndSignature ==
    WithCertificate =>
        LET certificate == last.client_credential.certificate
            jws == SubSeq(last.request.body.client_assertion, 1, 2)
        IN /\ Lower(tenant_id) = "adfs" =>
                 /\ AssertionHeader.alg = "RS256"
                 /\ ThumbprintKeys(AssertionHeader) = {"x5t"}
                 /\ AssertionHeader["x5t"] = <<"sha1", certificate>>
                 /\ AssertionSignature = SignRs256(certificate, jws)
           /\ Lower(tenant_id) # "adfs" =>
                 /\ AssertionHeader.alg = "PS256"
                 /\ ThumbprintKeys(AssertionHeader) = {"x5t#S256"}
                 /\ AssertionHeader["x5t#S256"] = <<"sha256", certificate>>
                 /\ AssertionSignature = SignPs256(certificate, jws)
           /\ AssertionSignature.alg = AssertionHeader.alg
           /\ Cardinality(ThumbprintKeys(AssertionHeader)) = 1

\* an on-behalf-of request of a client of tenant "ADFS" carried a certificate
\* assertion
C14_Witness ==
    /\ WithCertificate
    /\ tenant_id = "ADFS"
    /\ last.op = "_get_on_behalf_of_request"
    /\ AssertionHeader.alg = "RS256"

\* the same for a client of another tenant
C14_WitnessPs256 ==
    /\ WithCertificate
    /\ tenant_id = "t1"
    /\ AssertionHeader.alg = "PS256"

----------------------------------------------------------------------------
(* C15 *)

\* the merge was called with capabilities and a claims challenge that is absent
\* or the text of a JSON object
MergedWellFormed ==
    /\ last.op = "_merge_claims_challenge_and_capabilities"
    /\ last.capabilities # <<>>
    /\ Has(last.claims_challenge, "json") => last.claims_challenge.json.type = "object"
    /\ ~Has(last.claims_challenge, "malformed")

\* the members of a JSON object without the key k
Others(members, k) == [x \in DOMAIN members \ {k} |-> members[x]]

\* C15: for a non-empty capability list and a well-formed or absent claims
\* challenge the merge does not fail, its output has
\* access_token.xms_cc.values = capabilities, and every other top-level key and
\* every other key under access_token of the input is preserved.
C15_MergeNeverFails ==
    MergedWellFormed =>
        /\ last.result.outcome = "returned"
        /\ LET out == last.result.value.json
               inp == IF Has(last.claims_challenge, "json")
                      THEN last.claims_challenge.json ELSE JsonObject(EmptyDict)
           IN /\ out.type = "object"
              /\ out.members.access_token.members.xms_cc
                     = JsonObject([values |-> JsonArray(last.capabilities)])
              /\ Others(out.members, "access_token") = Others(inp.members, "access_token")
              /\ Has(inp.members, "access_token") =>
                     Others(out.members.access_token.members, "xms_cc")
                         = Others(inp.members.access_token.members, "xms_cc")

----------------------------------------------------------------------------
(* C19 *)

\* the content makes the call fail after the refresh-token steps: it has an
\* error other than invalid_grant, or neither expires_on nor expires_in
FailsAfterRotation ==
    \/ Has(last.content, "error") /\ last.content.error # "invalid_grant"
    \/ /\ ~Has(last.content, "error")
       /\ ~Has(last.content, "expires_on")
       /\ ~Has(last.content, "expires_in")

\* C19: the refresh-token steps precede the error and expiry checks.  When a
\* refresh-token-grant response has a refresh_token, exactly one entry matches
\* and the content fails one of the checks, the call ends in
\* ClientAuthenticationError with the entry already holding the new secret; a
\* failing call for another grant leaves the refresh-token entries as they were.
C19_RotationPrecedesChecks ==
    /\ (OneMatch /\ FailsAfterRotation) =>
           /\ last.outcome = "ClientAuthenticationError"
           /\ Rotated
           /\ WithSecret(After, OldSecret) = <<>>
    /\ (Processed /\ ~RefreshGrant /\ last.outcome # "AccessTokenInfo") =>
           Entries(After, RefreshTokenType) = Entries(last.before, RefreshTokenType)

\* a refresh-token grant was answered with an error and a refresh_token: the
\* call failed and the entry of R1 holds R2
C19_Witness ==
    /\ OneMatch
    /\ Has(last.content, "error")
    /\ last.content.error # "invalid_grant"
    /\ last.outcome = "ClientAuthenticationError"
    /\ last.content.refresh_token # OldSecret
    /\ Rotated

\* the same for a response without expires_on and expires_in
C19_WitnessUnexpected ==
    /\ OneMatch
    /\ ~Has(last.content, "error")
    /\ ~Has(last.content, "expires_on")
    /\ ~Has(last.content, "expires_in")
    /\ last.outcome = "ClientAuthenticationError"
    /\ Rotated

\* a failing client-credentials call with refresh tokens in the cache
C19_WitnessOtherGrant ==
    /\ Processed
    /\ ~RefreshGrant
    /\ last.outcome = "ClientAuthenticationError"
    /\ Entries(last.before, RefreshTokenType) # <<>>

----------------------------------------------------------------------------
(* C20 *)

\* get_cached_access_token returned a token
FoundToken == last.op = "get_cached_access_token" /\ last.token # NoToken

\* C20: after successful _process_response calls for different tenants, scope
\* lists and enable_cae flags, in caches that hold tokens of other client ids and
\* tenants, a token get_cached_access_token returns was issued for the client's
\* id, the tenant the lookup resolves to, the lookup's use of CAE and scopes that
\* include the requested ones.
C20_OnlyOwnTokens ==
    FoundToken =>
        \E cached \in Scopes :
           /\ Target(last.scopes) \subseteq Target(cached)
           /\ last.token.token = IssuedToken(ClientId,
                                             ResolveTenant(tenant_id, last.kwargs),
                                             EnableCae(last.kwargs), cached)

\* a lookup for tenant t2 returned t2's token from a cache that also holds a
\* token of the default tenant, of another client and of another tenant
C20_Witness ==
    /\ FoundToken
    /\ Get(last.kwargs, "tenant_id") = "t2"
    /\ last.token.token = IssuedToken(ClientId, "t2", EnableCae(last.kwargs), last.scopes)
    /\ \E e \in Range(Entries(last.before, AccessTokenType)) :
          e.client_id = ClientId /\ e.realm = TenantId
    /\ \E e \in Range(Entries(last.before, AccessTokenType)) : e.client_id = "c2"

----------------------------------------------------------------------------
(* C17 *)

\* a response that rotates the refresh token: no error and a new refresh_token
Rotation(content) == ~Has(content, "error") /\ Has(content, "refresh_token")

\* both threads were given rotation responses and both calls are over
BothRotated ==
    \A thread \in Threads :
       /\ calls[thread].pc = "done"
       /\ Rotation(calls[thread].response)

\* C17: two calls at once with rotation responses for the same refresh token, of
\* which the cache holds one entry: however their steps interleave, once both
\* calls are over no refresh-token entry has the old secret.  (That some
\* interleaving has a call find no entry and end without an error is what
\* C17_Witness reaches.)
C17_OldSecretGone == BothRotated => WithSecret(cache, Redeemed) = <<>>

\* one call's search found no entry, it updated nothing and returned a token,
\* while the other call found the entry
C17_Witness ==
    /\ BothRotated
    /\ \E thread \in Threads :
          /\ calls[thread].found = 0
          /\ calls[thread].outcome = "AccessTokenInfo"
          /\ Has(calls[thread].content, "refresh_token")
          /\ \E other \in Threads \ {thread} : calls[other].found = 1
    /\ WithSecret(cache, Redeemed) = <<>>

\* both calls found the entry: each searched before the other updated
C17_WitnessBothFound ==
    /\ BothRotated
    /\ \A thread \in Threads : calls[thread].found = 1

----------------------------------------------------------------------------
(* C18 *)

\* C18: however the steps of the calls interleave, an entry the invalid_grant
\* path removes has, when it is removed, the rejected refresh token as its
\* secret.
C18_EvictsOnlyRejected ==
    last.op = "remove_rt" =>
        \A e \in Range(last.removed) : e.secret = last.rejected

====
